---- MODULE Spec2Model ----
(***************************************************************************)
(* Portfolio simulators of the three TQQQ strategy variants:               *)
(*   variant 1  strategies/tqqq_strategy.py     TQQQStrategy.backtest      *)
(*   variant 2  strategies/tqqq_strategy_v2.py  TQQQStrategyV2.backtest    *)
(*   variant 3  strategies/tqqq_strategy_v3.py  TQQQStrategyV3.backtest    *)
(*                                                                         *)
(* One action is one iteration of the backtest loop (one bar).  The price  *)
(* columns and the signal columns of the bar are inputs of the step.       *)
(*                                                                         *)
(* Further specifications, over their own variables:                       *)
(*   SgSpec  generate_signals of variants 2 and 3, row by row              *)
(*   CzSpec  two runs of a backtest on series that differ in the last row  *)
(*   ShSpec  two strategy objects built from one caller-owned DataFrame    *)
(*   PfSpec  the performance analyzers applied to a ledger                 *)
(*                                                                         *)
(* The ledger `history` is append-only and the loop never reads it, so the *)
(* model keeps its length and its last row: every row of the ledger is the *)
(* last row in the state that follows its append.                          *)
(*                                                                         *)
(* Arithmetic.  The code computes in binary floating point; the model      *)
(* computes the same expressions exactly, in fixed point:                  *)
(*   prices          integers (price units)                                *)
(*   cash, values    integers, in 1/CU of a price unit                     *)
(*   rates           basis points (commission, slippage, volatility)       *)
(*   percentages     integers (stop_loss, trailing_stop, max_position ...) *)
(*   fractions       pairs <<numerator, denominator>> in lowest terms      *)
(* The input sets avoid values that sit exactly on a threshold, where      *)
(* floating-point rounding and exact arithmetic could disagree.            *)
(***************************************************************************)
EXTENDS Integers, Sequences, FiniteSets, TLC

VARIABLES
    variant,         \* which strategy class runs: 1, 2 or 3
    len_data,        \* len(self.data)
    initial_cash,    \* backtest(initial_cash), in cash units
    max_position,    \* variant 3 constructor parameter, percent
    partial_sell_ratio, \* variant 3 constructor parameter, percent
    rsi_last,        \* variant 3: self.data['rsi'].iloc[-1]
    trend_last,      \* variant 3: ma_long_trend.iloc[-1] = 1 and ma_trend.iloc[-1] = 1
    pc,              \* "loop" while the for loop runs, "done" after return
    i,               \* loop index
    cash,
    position,
    highest_price,
    avg_cost,        \* variant 3
    atr_stop_price,  \* variant 3, in tenths of a price unit
    close_prev,      \* self.data['close'].iloc[i-1]
    history_len,     \* len(history): number of rows appended so far
    history_last,    \* history[-1]: the row appended last (NoRow while empty)
    entry_price,     \* observer: close at which the last entry was executed
    signals_seen,    \* observer: some processed bar had buy_signal or sell_signal
    ev               \* observer: what the last processed bar did

\* generate_signals of variants 2 and 3, scanned bar by bar
VARIABLES
    sg_variant,      \* which generate_signals runs: 2 or 3 (0: not running)
    sg_idx,          \* index of the next row of self.data
    sg_end,          \* the scan stops before this row
    sg_prev,         \* the previous row: its ma_cross, and whether ma_2, ma_7 were defined
    sg_row           \* the row computed last: indicators and signal columns

\* two runs of one variant's backtest on two series that agree on every row
\* but the last
VARIABLES
    cz_variant,      \* which backtest runs twice: 2 or 3 (0: not running)
    cz_len,          \* len(self.data) of both series
    cz_i,            \* loop index of both runs
    cz_params,       \* initial_cash and constructor arguments, same for both runs
    cz_last,         \* per run: rsi and trend columns of the last row of its series
    cz_close_prev,   \* close of row i - 1 (both series)
    cz_sim,          \* per run: cash, position, avg_cost, highest_price, atr_stop_price
    cz_row           \* per run: the ledger row appended last (NoRow if none)

\* two strategy objects built from one caller-owned DataFrame, their steps
\* interleaved
VARIABLES
    sh_class,        \* per object: 1, 2 or 3 (TQQQStrategy, V2, V3)
    sh_pc,           \* per object: "new", "constructed", "signalled", "done"
    sh_in,           \* the caller's price data, and the signal columns each
                     \* variant's rule computes from it
    sh_frame,        \* the caller's DataFrame: columns added to it, and the
                     \* content of its buy_signal / sell_signal columns
    sh_own,          \* per object: self.data (the caller's frame or a copy)
    sh_ledger        \* per object: the ledger row its backtest returned

\* the performance analyzers applied to a ledger
VARIABLES
    pf_results,      \* the ledger: rows with portfolio_value and signal
    pf_pc,           \* "ledger" before an analyzer ran, then the analyzer's name
    pf_metrics       \* the metrics the analyzer computed

simvars == <<variant, len_data, initial_cash, max_position, partial_sell_ratio,
          rsi_last, trend_last,
          pc, i, cash, position, highest_price, avg_cost, atr_stop_price,
          close_prev, history_len, history_last, entry_price, signals_seen,
          ev>>

sgvars == <<sg_variant, sg_idx, sg_end, sg_prev, sg_row>>

czvars == <<cz_variant, cz_len, cz_i, cz_params, cz_last, cz_close_prev, cz_sim,
            cz_row>>

\* the variables of the machines other than the backtest, the signal scan,
\* the pair of runs
shvars == <<sh_class, sh_pc, sh_in, sh_frame, sh_own, sh_ledger>>

pfvars == <<pf_results, pf_pc, pf_metrics>>

\* the variables of the other machines, for each machine
aux == <<sgvars, czvars, shvars, pfvars>>
notsg == <<simvars, czvars, shvars, pfvars>>
notcz == <<simvars, sgvars, shvars, pfvars>>
notsh == <<simvars, sgvars, czvars, pfvars>>
notpf == <<simvars, sgvars, czvars, shvars>>

vars == <<simvars, sgvars, czvars, shvars, pfvars>>

-----------------------------------------------------------------------------
(* Bounds and input sets *)

MaxBars == 3

\* basis points per unit, and cash units per price unit: a transaction cost
\* of (commission + slippage) basis points of price * shares is a whole
\* number of cash units
BP == 10 ^ 4
CU == 2 * 10 ^ 3

PriceSet == {187, 191, 200, 208}

VolSet == {45, 280}

\* ATR of the bar; it enters the state only through atr_stop_price, which is
\* recomputed from the close on every Long bar
AtrSet == {1}

InitialCashSet == {300 * CU, 2000 * CU}

RsiSet == {25, 40, 55}

-----------------------------------------------------------------------------
(* Program constants *)

StartV1 == 7
TrimV1 == 2
FractionV1 == 97

StartV2 == 20
MaxPositionV2 == 70
StopLossV2 == 5
TrailingStopV2 == 8
CommissionV2 == 3
SlippageV2 == 2
VolThresholdV2 == 250
VolFloorV2 == 30

StartMaV3 == 50
AtrPeriod == 14
MaxPositionV3 == 80
StopLossV3 == 7
TrailingStopV3 == 10
CommissionV3 == 3
SlippageV3 == 2
VolThresholdV3 == 300
VolFloorV3 == 40
PartialSellRatio == 40
PartialSellGain == 3
PartialSellCap == 80
AtrMultiplier == 35
TrendBoost == 12

\* Constructor arguments of variant 3: <<max_position, partial_sell_ratio>>.
ParamsV3 ==
    {<<MaxPositionV3, PartialSellRatio>>, <<100, PartialSellRatio>>,
     <<MaxPositionV3, 90>>}

-----------------------------------------------------------------------------
(* Helpers *)

Max(a, b) == IF a >= b THEN a ELSE b
Min(a, b) == IF a <= b THEN a ELSE b

RECURSIVE Gcd(_, _)
Gcd(a, b) == IF b = 0 THEN a ELSE Gcd(b, a % b)

\* the fraction n/d (n >= 0, d > 0) in lowest terms
Frac(n, d) == LET g == Gcd(n, d) IN <<n \div g, d \div g>>
FracMul(x, y) == Frac(x[1] * y[1], x[2] * y[2])
FracMax(x, y) == IF x[1] * y[2] >= y[1] * x[2] THEN x ELSE y
FracMin(x, y) == IF x[1] * y[2] <= y[1] * x[2] THEN x ELSE y

\* start index of the for loop
StartIdx(v) ==
    CASE v = 1 -> StartV1
      [] v = 2 -> StartV2
      [] v = 3 -> Max(StartMaV3, AtrPeriod)

\* faulty variant: variant 1 runs to the last row like the other variants
RangeEndNoTrim(v, n) == n

\* end (exclusive) of the for loop's range
RangeEnd(v, n) == IF v = 1 THEN n - TrimV1 ELSE n

\* lengths of the input series: one too short for the loop to run, one that
\* gives MaxBars iterations
LenSet(v) ==
    IF v = 1 THEN {StartV1 - 1, StartV1 + TrimV1 + MaxBars}
             ELSE {StartIdx(v) - 1, StartIdx(v) + MaxBars}

\* 'buy' if buy_signal else ('sell' if sell_signal else 'hold')
SignalLabel(buy, sell) == IF buy THEN "buy" ELSE IF sell THEN "sell" ELSE "hold"

\* faulty variant: the position's value is left out of the row's portfolio_value
PortfolioValueCashOnly(c, pos, price) == c

\* portfolio_value = cash + position * current_price
PortfolioValue(c, pos, price) == c + pos * price * CU

LedgerRow(date, c, pos, price, buy, sell) ==
    [date |-> date, cash |-> c, position |-> pos,
     portfolio_value |-> PortfolioValue(c, pos, price),
     close |-> price, signal |-> SignalLabel(buy, sell)]

NoRow ==
    [date |-> -1, cash |-> 0, position |-> 0, portfolio_value |-> 0,
     close |-> 0, signal |-> "none"]

NoEvent ==
    [price |-> 0, open |-> 0, atr |-> 0, vol |-> 0, buy |-> FALSE, sell |-> FALSE,
     pos0 |-> 0, high0 |-> 0, cost0 |-> 0, cash0 |-> 0,
     stopped |-> FALSE, atr_stop |-> FALSE, partial |-> FALSE,
     partial_shares |-> 0,
     bought |-> FALSE, sold |-> FALSE, row |-> FALSE]

-----------------------------------------------------------------------------
\* the signal scan while a backtest runs: not running
SgIdle ==
    /\ sg_variant = 0
    /\ sg_idx = 0
    /\ sg_end = 0
    /\ sg_prev = <<>>
    /\ sg_row = <<>>

\* the pair of runs while something else runs: not running
CzIdle ==
    /\ cz_variant = 0
    /\ cz_len = 0
    /\ cz_i = 0
    /\ cz_params = <<>>
    /\ cz_last = <<>>
    /\ cz_close_prev = 0
    /\ cz_sim = <<>>
    /\ cz_row = <<>>

\* the interleaved objects while something else runs: none
ShIdle ==
    /\ sh_class = <<>>
    /\ sh_pc = <<>>
    /\ sh_in = <<>>
    /\ sh_frame = <<>>
    /\ sh_own = <<>>
    /\ sh_ledger = <<>>

\* the analyzers while something else runs: no ledger yet
PfIdle ==
    /\ pf_results = <<>>
    /\ pf_pc = "idle"
    /\ pf_metrics = <<>>

Init ==
    /\ SgIdle
    /\ CzIdle
    /\ ShIdle
    /\ PfIdle
    /\ variant \in {1, 2, 3}
    /\ len_data \in LenSet(variant)
    /\ initial_cash \in InitialCashSet
    /\ \E c \in (IF variant = 3 THEN ParamsV3 ELSE {<<0, 0>>}) :
           /\ max_position = c[1]
           /\ partial_sell_ratio = c[2]
    /\ rsi_last \in (IF variant = 3 THEN RsiSet ELSE {0})
    /\ trend_last \in (IF variant = 3 THEN BOOLEAN ELSE {FALSE})
    /\ pc = "loop"
    /\ i = StartIdx(variant)
    /\ cash = initial_cash
    /\ position = 0
    /\ highest_price = 0
    /\ avg_cost = 0
    /\ atr_stop_price = 0
    /\ close_prev \in (IF variant = 2 THEN PriceSet ELSE {0})
    /\ history_len = 0
    /\ history_last = NoRow
    /\ entry_price = 0
    /\ signals_seen = FALSE
    /\ ev = NoEvent

InLoop == pc = "loop" /\ i < RangeEnd(variant, len_data)

\* return pd.DataFrame(history)
Return ==
    /\ pc = "loop"
    /\ i >= RangeEnd(variant, len_data)
    /\ pc' = "done"
    /\ UNCHANGED <<variant, len_data, initial_cash, max_position,
                   partial_sell_ratio, rsi_last,
                   trend_last, i, cash, position, highest_price, avg_cost,
                   atr_stop_price, close_prev, history_len, history_last,
                   entry_price, signals_seen, ev>>
    /\ UNCHANGED aux

-----------------------------------------------------------------------------
(* Variant 1: TQQQStrategy.backtest *)

\* int((total_value * 0.97) // next_open)
\* faulty variant: invests the whole account value
SharesV1AllIn(total_value, next_open) ==
    (total_value * 100) \div (100 * next_open * CU)

SharesV1(total_value, next_open) ==
    (total_value * FractionV1) \div (100 * next_open * CU)

\* if self.data['buy_signal'].iloc[i] and position == 0
EntryCondV1(buy, pos) == buy /\ pos = 0

\* One iteration of the loop body.  s is the state at the top of the
\* iteration; the result is the state at its end.
StepV1(s, price, next_open, buy, sell) ==
    LET total_value == s.cash + s.position * price * CU
    IN  IF EntryCondV1(buy, s.position)
        THEN LET n == SharesV1(total_value, next_open)
             IN  [cash |-> s.cash - n * next_open * CU, position |-> n,
                  bought |-> n > 0, sold |-> FALSE]
        ELSE IF sell /\ s.position > 0
        THEN [cash |-> s.cash + s.position * next_open * CU, position |-> 0,
              bought |-> FALSE, sold |-> TRUE]
        ELSE [cash |-> s.cash, position |-> s.position,
              bought |-> FALSE, sold |-> FALSE]

BacktestV1 ==
    /\ variant = 1
    /\ InLoop
    /\ \E price \in PriceSet, next_open \in PriceSet, buy \in BOOLEAN, sell \in BOOLEAN :
         \E t \in {StepV1([cash |-> cash, position |-> position],
                         price, next_open, buy, sell)} :
             /\ cash' = t.cash
             /\ position' = t.position
             /\ history_len' = history_len + 1
             /\ history_last' = LedgerRow(i, t.cash, t.position, price, buy, sell)
             /\ entry_price' = IF t.bought THEN next_open ELSE entry_price
             /\ signals_seen' = (signals_seen \/ buy \/ sell)
             /\ ev' = [price |-> price, open |-> next_open, atr |-> 0, vol |-> 0,
                       buy |-> buy, sell |-> sell,
                       pos0 |-> position, high0 |-> highest_price,
                       cost0 |-> entry_price, cash0 |-> cash,
                       stopped |-> FALSE, atr_stop |-> FALSE, partial |-> FALSE,
                       partial_shares |-> 0,
                       bought |-> t.bought, sold |-> t.sold, row |-> TRUE]
    /\ i' = i + 1
    /\ UNCHANGED <<variant, len_data, initial_cash, max_position,
                   partial_sell_ratio, rsi_last,
                   trend_last, pc, highest_price, avg_cost, atr_stop_price,
                   close_prev>>
    /\ UNCHANGED aux

-----------------------------------------------------------------------------
(* Variant 2: TQQQStrategyV2.backtest *)

\* faulty variant: charges the commission but not the slippage
TransactionCostsNoSlippage(price, shares) ==
    ((price * shares * CommissionV2) * CU) \div BP

\* calculate_transaction_costs, in cash units
TransactionCostsV2(price, shares) ==
    ((price * shares * CommissionV2 + price * shares * SlippageV2) * CU) \div BP

\* vol_adj = max(0.3, 1 - volatility / (self.vol_threshold * 1.5))
VolAdjV2(volatility) ==
    LET d == 15 * VolThresholdV2
        n == 10 * volatility
    IN  FracMax(Frac(VolFloorV2, 100), IF n >= d THEN <<0, 1>> ELSE Frac(d - n, d))

\* calculate_position_size: base_position * vol_adj
PositionSizeV2(volatility) == FracMul(Frac(MaxPositionV2, 100), VolAdjV2(volatility))

\* int(max_buy_value // current_price), max_buy_value = total_value * position_size
SharesToBuyV2(total_value, price, volatility) ==
    LET f == PositionSizeV2(volatility)
    IN  (total_value * f[1]) \div (f[2] * price * CU)

\* position_return < self.stop_loss or current_price < trailing_stop_price
StopTripsV2(price, prev_close, highest) ==
    \/ (price - prev_close) * 100 < (0 - StopLossV2) * prev_close
    \/ price * 100 < highest * (100 - TrailingStopV2)

\* total_cost <= cash
AffordableV2(total_cost, c) == total_cost <= c

\* faulty variant: `or` for `and` in the entry condition
EntryCondAny(buy, pos) == buy \/ pos = 0

\* if self.data['buy_signal'].iloc[i] and position == 0
EntryCondV2(buy, pos) == buy /\ pos = 0

\* the `if position > 0:` block at the top of the loop body
StopPhaseV2(s, price, prev_close) ==
    IF s.position > 0
    THEN LET h == Max(s.highest_price, price)
         IN  IF StopTripsV2(price, prev_close, h)
             THEN [cash |-> s.cash + s.position * price * CU
                                   - TransactionCostsV2(price, s.position),
                   position |-> 0, highest_price |-> 0, stopped |-> TRUE]
             ELSE [cash |-> s.cash, position |-> s.position,
                   highest_price |-> h, stopped |-> FALSE]
    ELSE [cash |-> s.cash, position |-> s.position,
          highest_price |-> s.highest_price, stopped |-> FALSE]

\* the buy / sell if-elif that follows; total_value was computed before the
\* stop block ran
SignalPhaseV2(m, total_value, price, buy, sell, volatility) ==
    LET keep == [cash |-> m.cash, position |-> m.position,
                 highest_price |-> m.highest_price, stopped |-> m.stopped,
                 bought |-> FALSE, sold |-> FALSE]
    IN  IF EntryCondV2(buy, m.position)
        THEN LET shares_to_buy == SharesToBuyV2(total_value, price, volatility)
                 total_cost == shares_to_buy * price * CU
                               + TransactionCostsV2(price, shares_to_buy)
             IN  IF shares_to_buy > 0 /\ AffordableV2(total_cost, m.cash)
                 THEN [keep EXCEPT !.cash = m.cash - total_cost,
                                   !.position = shares_to_buy,
                                   !.highest_price = price,
                                   !.bought = TRUE]
                 ELSE keep
        ELSE IF sell /\ m.position > 0
        THEN [keep EXCEPT !.cash = m.cash + m.position * price * CU
                                   - TransactionCostsV2(price, m.position),
                          !.position = 0,
                          !.highest_price = 0,
                          !.sold = TRUE]
        ELSE keep

StepV2(s, price, prev_close, buy, sell, volatility) ==
    LET total_value == s.cash + s.position * price * CU
    IN  SignalPhaseV2(StopPhaseV2(s, price, prev_close), total_value,
                      price, buy, sell, volatility)

\* generate_signals of variant 2: buy needs ma_cross to rise and
\* volatility < vol_threshold * 1.2, sell needs ma_cross to fall
SignalsPossibleV2(buy, sell, volatility) ==
    /\ ~(buy /\ sell)
    /\ buy => 10 * volatility < 12 * VolThresholdV2

BacktestV2 ==
    /\ variant = 2
    /\ InLoop
    /\ \E price \in PriceSet, buy \in BOOLEAN, sell \in BOOLEAN, volatility \in VolSet :
         /\ SignalsPossibleV2(buy, sell, volatility)
         /\ \E t \in {StepV2([cash |-> cash, position |-> position,
                             highest_price |-> highest_price],
                            price, close_prev, buy, sell, volatility)} :
                /\ cash' = t.cash
                /\ position' = t.position
                /\ highest_price' = t.highest_price
                /\ history_len' = history_len + 1
                /\ history_last' = LedgerRow(i, t.cash, t.position, price, buy, sell)
                /\ entry_price' = IF t.bought THEN price ELSE entry_price
                /\ signals_seen' = (signals_seen \/ buy \/ sell)
                /\ close_prev' = price
                /\ ev' = [price |-> price, open |-> 0, atr |-> 0,
                          vol |-> volatility,
                          buy |-> buy, sell |-> sell,
                          pos0 |-> position, high0 |-> highest_price,
                          cost0 |-> entry_price, cash0 |-> cash,
                          stopped |-> t.stopped, atr_stop |-> FALSE,
                          partial |-> FALSE, partial_shares |-> 0,
                          bought |-> t.bought, sold |-> t.sold, row |-> TRUE]
    /\ i' = i + 1
    /\ UNCHANGED <<variant, len_data, initial_cash, max_position,
                   partial_sell_ratio, rsi_last,
                   trend_last, pc, avg_cost, atr_stop_price>>
    /\ UNCHANGED aux

-----------------------------------------------------------------------------
(* Variant 3: TQQQStrategyV3.backtest *)

\* calculate_transaction_costs, in cash units
TransactionCostsV3(price, shares) ==
    ((price * shares * CommissionV3 + price * shares * SlippageV3) * CU) \div BP

\* vol_adj = max(0.4, 1 - volatility / (self.vol_threshold * 1.5))
VolAdjV3(volatility) ==
    LET d == 15 * VolThresholdV3
        n == 10 * volatility
    IN  FracMax(Frac(VolFloorV3, 100), IF n >= d THEN <<0, 1>> ELSE Frac(d - n, d))

\* rsi_adj, from rsi = self.data['rsi'].iloc[-1]
RsiAdj(rsi) ==
    IF rsi < 30 \/ rsi > 70 THEN Frac(6, 10)
    ELSE IF 45 <= rsi /\ rsi <= 65 THEN Frac(10, 10)
    ELSE Frac(8, 10)

\* trend_adj, from ma_long_trend.iloc[-1] and ma_trend.iloc[-1]
TrendAdj(trend_up) == IF trend_up THEN Frac(TrendBoost, 10) ELSE Frac(10, 10)

\* adjusted_position = base_position * vol_adj * rsi_adj * trend_adj
AdjustedPositionV3(base, volatility, rsi, trend_up) ==
    FracMul(FracMul(FracMul(Frac(base, 100), VolAdjV3(volatility)), RsiAdj(rsi)),
            TrendAdj(trend_up))

\* calculate_position_size: int((cash * adjusted_position) // price)
PositionSizeV3(c, price, volatility, base, rsi, trend_up) ==
    LET f == AdjustedPositionV3(base, volatility, rsi, trend_up)
    IN  (c * f[1]) \div (f[2] * price * CU)

\* atr_stop_price = current_price - self.atr_multiplier * current_atr, in tenths
AtrStopPrice(price, atr) == 10 * price - AtrMultiplier * atr

\* 1. (current_price / avg_cost - 1) < -self.stop_loss
FixedStopV3(price, cost) == (price - cost) * 100 < (0 - StopLossV3) * cost

\* 2. current_price < trailing_stop_price
TrailingStopTripsV3(price, highest) == price * 100 < highest * (100 - TrailingStopV3)

\* 3. current_price < atr_stop_price
AtrStopTripsV3(price, stop_price) == 10 * price < stop_price

\* unrealized_pnl >= self.partial_sell_gain
PartialGainReached(price, cost) == (price - cost) * 100 >= PartialSellGain * cost

\* faulty variant: the sale ratio is 1 + unrealized_pnl, neither scaled by
\* partial_sell_ratio nor capped
SellRatioUnscaled(price, cost, ratio) == Frac(price, cost)

\* sell_ratio = min(0.8, self.partial_sell_ratio * (1 + unrealized_pnl)),
\* evaluated only where unrealized_pnl >= partial_sell_gain > 0
SellRatio(price, cost, ratio) ==
    FracMin(Frac(PartialSellCap, 100),
            FracMul(Frac(ratio, 100), Frac(price, cost)))

\* shares_to_sell = int(position * sell_ratio)
\* faulty variant: rounds the share count up instead of truncating
SharesToSellRoundUp(pos, price, cost, ratio) ==
    LET r == SellRatio(price, cost, ratio) IN (pos * r[1] + r[2] - 1) \div r[2]

SharesToSell(pos, price, cost, ratio) ==
    LET r == SellRatio(price, cost, ratio) IN (pos * r[1]) \div r[2]

\* faulty variant: the affordability check of the entry is dropped
AffordableAlways(total_cost, c) == TRUE

\* total_cost <= cash
AffordableV3(total_cost, c) == total_cost <= c

\* faulty variant: the entry condition forgets the position
EntryCondIgnoresPosition(buy, pos) == buy

\* if self.data['buy_signal'].iloc[i] and position == 0
EntryCondV3(buy, pos) == buy /\ pos = 0

\* the `if position > 0:` block.  skip = TRUE models `continue`: the rest of
\* the loop body, the ledger append included, does not run.
StopPhaseV3(s, price, atr, ratio) ==
    LET idle == [cash |-> s.cash, position |-> s.position, avg_cost |-> s.avg_cost,
                 highest_price |-> s.highest_price,
                 atr_stop_price |-> s.atr_stop_price,
                 stopped |-> FALSE, atr_stop |-> FALSE, partial |-> FALSE,
                 partial_shares |-> 0, skip |-> FALSE]
    IN  IF s.position > 0
        THEN LET h == Max(s.highest_price, price)
                 a == AtrStopPrice(price, atr)
                 fixed == FixedStopV3(price, s.avg_cost)
                 trailing == ~fixed /\ TrailingStopTripsV3(price, h)
                 by_atr == ~fixed /\ ~trailing /\ AtrStopTripsV3(price, a)
             IN  IF fixed \/ trailing \/ by_atr
                 THEN [idle EXCEPT !.cash = s.cash + s.position * price * CU
                                            - TransactionCostsV3(price, s.position),
                                   !.position = 0,
                                   !.highest_price = 0,
                                   !.atr_stop_price = 0,
                                   !.stopped = TRUE,
                                   !.atr_stop = by_atr,
                                   !.skip = TRUE]
                 ELSE IF PartialGainReached(price, s.avg_cost)
                 THEN LET shares_to_sell ==
                          SharesToSell(s.position, price, s.avg_cost, ratio)
                      IN  IF shares_to_sell > 0
                          THEN [idle EXCEPT
                                  !.cash = s.cash + shares_to_sell * price * CU
                                           - TransactionCostsV3(price, shares_to_sell),
                                  !.position = s.position - shares_to_sell,
                                  !.highest_price = h,
                                  !.atr_stop_price = a,
                                  !.partial = TRUE,
                                  !.partial_shares = shares_to_sell]
                          ELSE [idle EXCEPT !.highest_price = h, !.atr_stop_price = a]
                 ELSE [idle EXCEPT !.highest_price = h, !.atr_stop_price = a]
        ELSE idle

\* the buy / sell if-elif
SignalPhaseV3(m, price, atr, buy, sell, volatility, base, rsi, trend_up) ==
    LET keep == [cash |-> m.cash, position |-> m.position, avg_cost |-> m.avg_cost,
                 highest_price |-> m.highest_price,
                 atr_stop_price |-> m.atr_stop_price,
                 stopped |-> m.stopped, atr_stop |-> m.atr_stop,
                 partial |-> m.partial, partial_shares |-> m.partial_shares,
                 skip |-> m.skip,
                 bought |-> FALSE, sold |-> FALSE]
    IN  IF m.skip THEN keep
        ELSE IF EntryCondV3(buy, m.position)
        THEN LET shares_to_buy ==
                     PositionSizeV3(m.cash, price, volatility, base, rsi, trend_up)
                 total_cost == shares_to_buy * price * CU
                               + TransactionCostsV3(price, shares_to_buy)
             IN  IF shares_to_buy > 0 /\ AffordableV3(total_cost, m.cash)
                 THEN [keep EXCEPT !.cash = m.cash - total_cost,
                                   !.position = shares_to_buy,
                                   !.avg_cost = price,
                                   !.highest_price = price,
                                   !.atr_stop_price = AtrStopPrice(price, atr),
                                   !.bought = TRUE]
                 ELSE keep
        ELSE IF sell /\ m.position > 0
        THEN [keep EXCEPT !.cash = m.cash + m.position * price * CU
                                   - TransactionCostsV3(price, m.position),
                          !.position = 0,
                          !.highest_price = 0,
                          !.atr_stop_price = 0,
                          !.sold = TRUE]
        ELSE keep

StepV3(s, price, atr, buy, sell, volatility, base, ratio, rsi, trend_up) ==
    SignalPhaseV3(StopPhaseV3(s, price, atr, ratio),
                  price, atr, buy, sell, volatility, base, rsi, trend_up)

BacktestV3 ==
    /\ variant = 3
    /\ InLoop
    /\ \E price \in PriceSet, atr \in AtrSet, buy \in BOOLEAN, sell \in BOOLEAN,
          volatility \in VolSet :
         \E t \in {StepV3([cash |-> cash, position |-> position, avg_cost |-> avg_cost,
                          highest_price |-> highest_price,
                          atr_stop_price |-> atr_stop_price],
                         price, atr, buy, sell, volatility,
                         max_position, partial_sell_ratio, rsi_last, trend_last)} :
             /\ cash' = t.cash
             /\ position' = t.position
             /\ avg_cost' = t.avg_cost
             /\ highest_price' = t.highest_price
             /\ atr_stop_price' = t.atr_stop_price
             /\ history_len' = IF t.skip THEN history_len ELSE history_len + 1
             /\ history_last' = IF t.skip THEN history_last
                                ELSE LedgerRow(i, t.cash, t.position, price, buy, sell)
             /\ entry_price' = IF t.bought THEN price ELSE entry_price
             /\ signals_seen' = (signals_seen \/ buy \/ sell)
             /\ ev' = [price |-> price, open |-> 0, atr |-> atr,
                       vol |-> volatility,
                       buy |-> buy, sell |-> sell,
                       pos0 |-> position, high0 |-> highest_price,
                       cost0 |-> avg_cost, cash0 |-> cash,
                       stopped |-> t.stopped, atr_stop |-> t.atr_stop,
                       partial |-> t.partial,
                       partial_shares |-> t.partial_shares,
                       bought |-> t.bought, sold |-> t.sold, row |-> ~t.skip]
    /\ i' = i + 1
    /\ UNCHANGED <<variant, len_data, initial_cash, max_position,
                   partial_sell_ratio, rsi_last,
                   trend_last, pc, close_prev>>
    /\ UNCHANGED aux

Next ==
    \/ BacktestV1
    \/ BacktestV2
    \/ BacktestV3
    \/ Return

Spec == Init /\ [][Next]_vars

-----------------------------------------------------------------------------
(* Signal generation: generate_signals of variants 2 and 3.                *)
(* One action computes the signal columns of one row of self.data.  The    *)
(* indicator columns are inputs of the row; an indicator is NaN on the     *)
(* rows its window does not cover yet.  Moving averages are price units,   *)
(* volatility and momentum are basis points, RSI is 0..100.                *)

\* rows computed by one scan, and the rows a scan can start at
SgRows == 2
SgStartSet == {0, 5, 6, 12, 18, 19, 48}

MaSet == {99, 101}
MaMidSet == {100}
MaLongSet == {98, 100}
SgVolSet == {200, 800}
SgMomentumSet == {-200, -50, 200}
SgMomentum20Set == {-100, 100}
SgRsiSet == {30, 50, 90}

\* a float: NaN or a number
NaN == [nan |-> TRUE, v |-> 0]
Num(x) == [nan |-> FALSE, v |-> x]

\* comparisons of floats: False when either side is NaN
Gt(a, b) == ~a.nan /\ ~b.nan /\ a.v > b.v
Lt(a, b) == ~a.nan /\ ~b.nan /\ a.v < b.v

\* (condition).astype(int)
AsInt(b) == IF b THEN 1 ELSE 0

\* series.rolling(window).mean() / .std() at row idx, over a series whose
\* first defined row is `first`: defined once the window holds `window` values
Rolling(idx, first, window, x) == IF idx < first + window - 1 THEN NaN ELSE Num(x)

\* series.pct_change(periods) at row idx
PctChange(idx, periods, x) == IF idx < periods THEN NaN ELSE Num(x)

\* calculate_rsi: delta.where(delta > 0, 0) turns the NaN of row 0 into 0, so
\* gain and loss are defined from row period - 1; a zero loss is replaced by
\* 1e-10, so rs and rsi are numbers wherever gain and loss are
CalculateRsi(idx, period, x) == Rolling(idx, 0, period, x)

\* the indicator columns of row idx (__init__ / prepare_data), from the
\* values x the windows yield once they are defined
Indicators(idx, x) ==
    [ma_2 |-> Rolling(idx, 0, 2, x.ma_2),
     ma_7 |-> Rolling(idx, 0, 7, x.ma_7),
     ma_20 |-> Rolling(idx, 0, 20, x.ma_20),
     ma_50 |-> Rolling(idx, 0, 50, x.ma_50),
     volatility |-> Rolling(idx, 1, 20, x.volatility),
     momentum |-> PctChange(idx, 5, x.momentum),
     momentum_20 |-> PctChange(idx, 20, x.momentum_20),
     rsi |-> CalculateRsi(idx, 14, x.rsi)]

\* ma_cross, ma_trend, ma_long_trend of a row
MaCross(d) == AsInt(Gt(d.ma_2, d.ma_7))
MaTrend(d) == AsInt(Gt(d.ma_7, d.ma_20))
MaLongTrend(d) == AsInt(Gt(d.ma_20, d.ma_50))

\* self.data['ma_cross'].shift(1) at the row after `prev`
ShiftedCross(prev) == IF prev = <<>> THEN NaN ELSE Num(prev.ma_cross)

\* generate_signals of variant 2 on one row
GenerateSignalsRowV2(d, prev) ==
    LET cross == Num(MaCross(d))
        buy == /\ Gt(cross, ShiftedCross(prev))
               /\ (MaTrend(d) = 1 \/ Gt(d.momentum, Num(100)))
               /\ Lt([d.volatility EXCEPT !.v = 10 * @], Num(12 * VolThresholdV2))
        sell == /\ Lt(cross, ShiftedCross(prev))
                /\ (MaTrend(d) = 0
                    \/ Gt(d.volatility, Num(2 * VolThresholdV2)))
    IN  [buy_signal |-> buy, sell_signal |-> sell,
         buy_conditions |-> <<>>, buy_score |-> 0]

\* faulty variant: the buy threshold is a score above 4
BuyThresholdStrict(score) == score > 4

\* buy_score >= 4
BuyThreshold(score) == score >= 4

\* sum of a row of buy_conditions
RECURSIVE SumSeq(_)
SumSeq(q) == IF q = <<>> THEN 0 ELSE Head(q) + SumSeq(Tail(q))

\* generate_signals of variant 3 on one row
GenerateSignalsRowV3(d, prev) ==
    LET cross == Num(MaCross(d))
        buy_conditions ==
            << AsInt(Gt(cross, ShiftedCross(prev))),
               AsInt(MaTrend(d) = 1),
               AsInt(MaLongTrend(d) = 1),
               AsInt(Gt(d.rsi, Num(45)) /\ Lt(d.rsi, Num(75))),
               AsInt(Lt([d.volatility EXCEPT !.v = 10 * @],
                        Num(12 * VolThresholdV3))),
               AsInt(Gt(d.momentum, Num(-100)) /\ Gt(d.momentum_20, Num(0))) >>
        buy_score == SumSeq(buy_conditions)
        sell == /\ Lt(cross, ShiftedCross(prev))
                /\ \/ (Lt(d.rsi, Num(35)) \/ Gt(d.rsi, Num(85)))
                   \/ /\ Gt([d.volatility EXCEPT !.v = 10 * @],
                             Num(25 * VolThresholdV3))
                      /\ Lt(d.momentum, Num(0))
    IN  [buy_signal |-> BuyThreshold(buy_score), sell_signal |-> sell,
         buy_conditions |-> buy_conditions, buy_score |-> buy_score]

\* the backtests while the signal scan runs: not started
SimIdle ==
    /\ variant = 0
    /\ len_data = 0
    /\ initial_cash = 0
    /\ max_position = 0
    /\ partial_sell_ratio = 0
    /\ rsi_last = 0
    /\ trend_last = FALSE
    /\ pc = "idle"
    /\ i = 0
    /\ cash = 0
    /\ position = 0
    /\ highest_price = 0
    /\ avg_cost = 0
    /\ atr_stop_price = 0
    /\ close_prev = 0
    /\ history_len = 0
    /\ history_last = NoRow
    /\ entry_price = 0
    /\ signals_seen = FALSE
    /\ ev = NoEvent

\* series.shift(-k) at row idx, for a series of n rows that is defined from
\* row `first` on: the value of row idx + k, NaN when that row does not exist
\* or is NaN itself
Shifted(idx, k, n, first, x) ==
    IF idx + k \in 0..(n - 1) /\ idx + k >= first THEN Num(x) ELSE NaN

\* series.iloc[idx] on a series of n rows does not raise IndexError
IlocValid(idx, n) == idx \in (-n)..(n - 1)

\* calculate_atr: TR is the row maximum of H-L, |H-PC|, |L-PC|, which skips
\* the NaN of row 0, so ATR is defined from row period - 1
CalculateAtr(idx, period, x) == Rolling(idx, 0, period, x)

\* the window values a row can hold once its windows are defined
SgInputSet ==
    [ma_2 : MaSet, ma_7 : MaMidSet, ma_20 : MaSet, ma_50 : MaLongSet,
     volatility : SgVolSet, momentum : SgMomentumSet,
     momentum_20 : SgMomentum20Set, rsi : SgRsiSet]

\* what the scan remembers of a row: its ma_cross, and whether ma_2 and ma_7
\* were defined on it
Remembered(d) ==
    [ma_cross |-> MaCross(d), defined |-> ~d.ma_2.nan /\ ~d.ma_7.nan]

\* the rows that can precede row idx (none before row 0)
PrevRows(idx) ==
    IF idx = 0 THEN {<<>>}
    ELSE {Remembered(Indicators(idx - 1, x)) : x \in SgInputSet}

\* the scan starts at one of the rows around which a window becomes defined
SgInit ==
    /\ SimIdle
    /\ CzIdle
    /\ ShIdle
    /\ PfIdle
    /\ sg_variant \in {2, 3}
    /\ sg_idx \in SgStartSet
    /\ sg_end = sg_idx + SgRows
    /\ sg_prev \in PrevRows(sg_idx)
    /\ sg_row = <<>>

\* generate_signals of variant 2, one row
GenerateSignalsV2 ==
    /\ sg_variant = 2
    /\ sg_idx < sg_end
    /\ \E x \in SgInputSet :
         \E d \in {Indicators(sg_idx, x)} :
             /\ sg_row' = [idx |-> sg_idx, ind |-> d, prev |-> sg_prev,
                           out |-> GenerateSignalsRowV2(d, sg_prev)]
             /\ sg_prev' = Remembered(d)
    /\ sg_idx' = sg_idx + 1
    /\ UNCHANGED <<sg_variant, sg_end, notsg>>

\* generate_signals of variant 3, one row
GenerateSignalsV3 ==
    /\ sg_variant = 3
    /\ sg_idx < sg_end
    /\ \E x \in SgInputSet :
         \E d \in {Indicators(sg_idx, x)} :
             /\ sg_row' = [idx |-> sg_idx, ind |-> d, prev |-> sg_prev,
                           out |-> GenerateSignalsRowV3(d, sg_prev)]
             /\ sg_prev' = Remembered(d)
    /\ sg_idx' = sg_idx + 1
    /\ UNCHANGED <<sg_variant, sg_end, notsg>>

SgNext ==
    \/ GenerateSignalsV2
    \/ GenerateSignalsV3

SgSpec == SgInit /\ [][SgNext]_vars

-----------------------------------------------------------------------------
(* Two runs of a backtest on series that agree up to the row before the    *)
(* last.  Both runs get the same columns for every bar they simulate; the  *)
(* rows they differ in come after every simulated bar.  Variant 3's        *)
(* calculate_position_size reads rsi, ma_long_trend and ma_trend with      *)
(* .iloc[-1], the last row of the series, so each run has its own.         *)

\* bars both runs simulate
CzBars == 2

\* rsi and trend columns of a last row
LastRowSet == [rsi : RsiSet, trend : BOOLEAN]

CzStart(c) ==
    [cash |-> c, position |-> 0, avg_cost |-> 0, highest_price |-> 0,
     atr_stop_price |-> 0]

CzInit ==
    /\ SimIdle
    /\ SgIdle
    /\ ShIdle
    /\ PfIdle
    /\ cz_variant \in {2, 3}
    /\ cz_len = StartIdx(cz_variant) + CzBars + 1
    /\ cz_i = StartIdx(cz_variant)
    /\ \E c \in InitialCashSet,
          a \in (IF cz_variant = 3 THEN ParamsV3 ELSE {<<0, 0>>}) :
           cz_params = [initial_cash |-> c, max_position |-> a[1],
                        partial_sell_ratio |-> a[2]]
    /\ cz_last \in (IF cz_variant = 3 THEN LastRowSet \X LastRowSet
                   ELSE {<<[rsi |-> 0, trend |-> FALSE], [rsi |-> 0, trend |-> FALSE]>>})
    /\ cz_close_prev \in (IF cz_variant = 2 THEN PriceSet ELSE {0})
    /\ cz_sim = <<CzStart(cz_params.initial_cash), CzStart(cz_params.initial_cash)>>
    /\ cz_row = <<NoRow, NoRow>>

\* one bar of variant 2 in run k: the row appended and the locals after it
CzStepV2(k, price, buy, sell, volatility) ==
    LET s == cz_sim[k]
        t == StepV2([cash |-> s.cash, position |-> s.position,
                     highest_price |-> s.highest_price],
                    price, cz_close_prev, buy, sell, volatility)
    IN  [sim |-> [s EXCEPT !.cash = t.cash, !.position = t.position,
                           !.highest_price = t.highest_price],
         row |-> LedgerRow(cz_i, t.cash, t.position, price, buy, sell)]

\* one bar of variant 3 in run k: the last row read by the sizing is the
\* run's own
CzStepV3(k, price, atr, buy, sell, volatility) ==
    LET s == cz_sim[k]
        t == StepV3(s, price, atr, buy, sell, volatility,
                    cz_params.max_position, cz_params.partial_sell_ratio,
                    cz_last[k].rsi, cz_last[k].trend)
    IN  [sim |-> [cash |-> t.cash, position |-> t.position,
                  avg_cost |-> t.avg_cost, highest_price |-> t.highest_price,
                  atr_stop_price |-> t.atr_stop_price],
         row |-> IF t.skip THEN cz_row[k]
                 ELSE LedgerRow(cz_i, t.cash, t.position, price, buy, sell)]

\* both runs simulate bar cz_i, a row before the last, on the same columns
BacktestPairV2 ==
    /\ cz_variant = 2
    /\ cz_i < cz_len - 1
    /\ \E price \in PriceSet, buy \in BOOLEAN, sell \in BOOLEAN,
          volatility \in VolSet :
         /\ SignalsPossibleV2(buy, sell, volatility)
         /\ \E a \in {CzStepV2(1, price, buy, sell, volatility)},
               b \in {CzStepV2(2, price, buy, sell, volatility)} :
                /\ cz_sim' = <<a.sim, b.sim>>
                /\ cz_row' = <<a.row, b.row>>
         /\ cz_close_prev' = price
    /\ cz_i' = cz_i + 1
    /\ UNCHANGED <<cz_variant, cz_len, cz_params, cz_last, notcz>>

BacktestPairV3 ==
    /\ cz_variant = 3
    /\ cz_i < cz_len - 1
    /\ \E price \in PriceSet, atr \in AtrSet, buy \in BOOLEAN, sell \in BOOLEAN,
          volatility \in VolSet :
         \E a \in {CzStepV3(1, price, atr, buy, sell, volatility)},
            b \in {CzStepV3(2, price, atr, buy, sell, volatility)} :
             /\ cz_sim' = <<a.sim, b.sim>>
             /\ cz_row' = <<a.row, b.row>>
    /\ cz_i' = cz_i + 1
    /\ UNCHANGED <<cz_variant, cz_len, cz_params, cz_last, cz_close_prev, notcz>>

CzNext ==
    \/ BacktestPairV2
    \/ BacktestPairV3

CzSpec == CzInit /\ [][CzNext]_vars

-----------------------------------------------------------------------------
(* Two strategy objects built from the same DataFrame, as main() builds    *)
(* them from `data`, with their steps (constructor, generate_signals,      *)
(* backtest) interleaved.  A DataFrame is the set of columns added to the  *)
(* caller's price columns and the content of its buy_signal / sell_signal  *)
(* columns on the simulated bar; each backtest simulates that one bar from *)
(* the initial cash.                                                       *)

\* the pairs <<buy_signal, sell_signal>> a rule can compute for the bar
SignalPairSet == BOOLEAN \X BOOLEAN

\* columns the constructor adds to self.data
ColumnsInit(c) ==
    CASE c = 1 -> {"ma_2", "ma_7"}
      [] c = 2 -> {"ma_2", "ma_7", "ma_20", "volatility"}
      [] c = 3 -> {"ma_2", "ma_7", "ma_20", "ma_50", "volatility", "momentum",
                   "momentum_20", "ATR", "rsi", "ma_cross", "ma_trend",
                   "ma_long_trend"}

\* columns generate_signals adds to self.data
ColumnsSignals(c) ==
    CASE c = 1 -> {"avg_0", "avg_1", "avg_2", "ma_2_0", "ma_7_0", "ma_7_1",
                   "buy_signal", "sell_signal"}
      [] c = 2 -> {"ma_cross", "ma_trend", "momentum", "buy_signal", "sell_signal"}
      [] c = 3 -> {"buy_signal", "sell_signal"}

\* the caller's frame as fetched: price columns only
FreshFrame == [cols |-> {}, signals |-> <<>>]

\* self.data = data (variants 1, 2) or self.data = data.copy() (variant 3)
Aliased == [shared |-> TRUE, cols |-> {}, signals |-> <<>>]
Copied(frame) == [shared |-> FALSE, cols |-> frame.cols, signals |-> frame.signals]

\* self.data after the assignment in __init__
SelfData(c, frame) == IF c = 3 THEN Copied(frame) ELSE Aliased

\* the frame object k's self.data refers to
FrameOf(k) == IF sh_own[k].shared THEN sh_frame ELSE sh_own[k]

\* the ledger row of the simulated bar for class c reading signal columns sig
ShLedger(c, sig) ==
    LET buy == sig[1]
        sell == sig[2]
        x == sh_in
    IN  CASE c = 1 ->
               LET t == StepV1([cash |-> x.cash, position |-> 0],
                               x.price, x.next_open, buy, sell)
               IN  LedgerRow(StartIdx(1), t.cash, t.position, x.price, buy, sell)
          [] c = 2 ->
               LET t == StepV2([cash |-> x.cash, position |-> 0,
                                highest_price |-> 0],
                               x.price, x.price, buy, sell, x.volatility)
               IN  LedgerRow(StartIdx(2), t.cash, t.position, x.price, buy, sell)
          [] c = 3 ->
               LET t == StepV3(CzStart(x.cash), x.price, x.atr, buy, sell,
                               x.volatility, MaxPositionV3, PartialSellRatio,
                               x.rsi, FALSE)
               IN  LedgerRow(StartIdx(3), t.cash, t.position, x.price, buy, sell)

ShInit ==
    /\ SimIdle
    /\ SgIdle
    /\ CzIdle
    /\ PfIdle
    /\ sh_class \in {1, 2, 3} \X {1, 2, 3}
    /\ \E c \in InitialCashSet, p \in PriceSet, o \in PriceSet,
          s1 \in SignalPairSet, s2 \in SignalPairSet, s3 \in SignalPairSet :
           /\ SignalsPossibleV2(s2[1], s2[2], 45)
           /\ sh_in = [cash |-> c, price |-> p, next_open |-> o,
                       volatility |-> 45, atr |-> 1, rsi |-> 55,
                       signals |-> <<s1, s2, s3>>]
    /\ sh_pc = <<"new", "new">>
    /\ sh_frame = FreshFrame
    /\ sh_own = <<Aliased, Aliased>>
    /\ sh_ledger = <<NoRow, NoRow>>

\* strategy_class(data): binds self.data and adds the indicator columns
Construct(k) ==
    /\ sh_pc[k] = "new"
    /\ LET c == sh_class[k]
           d == SelfData(c, sh_frame)
       IN  IF d.shared
           THEN /\ sh_frame' = [sh_frame EXCEPT !.cols = @ \cup ColumnsInit(c)]
                /\ sh_own' = [sh_own EXCEPT ![k] = d]
           ELSE /\ sh_own' = [sh_own EXCEPT ![k] =
                                   [d EXCEPT !.cols = @ \cup ColumnsInit(c)]]
                /\ UNCHANGED sh_frame
    /\ sh_pc' = [sh_pc EXCEPT ![k] = "constructed"]
    /\ UNCHANGED <<sh_class, sh_in, sh_ledger, notsh>>

\* the signal columns written into a frame by the rule of class c
WithSignals(frame, c) ==
    [frame EXCEPT !.cols = @ \cup ColumnsSignals(c),
                  !.signals = sh_in.signals[c]]

\* strategy.generate_signals(): writes buy_signal and sell_signal into self.data
GenerateSignals(k) ==
    /\ sh_pc[k] = "constructed"
    /\ IF sh_own[k].shared
       THEN /\ sh_frame' = WithSignals(sh_frame, sh_class[k])
            /\ UNCHANGED sh_own
       ELSE /\ sh_own' = [sh_own EXCEPT ![k] = WithSignals(@, sh_class[k])]
            /\ UNCHANGED sh_frame
    /\ sh_pc' = [sh_pc EXCEPT ![k] = "signalled"]
    /\ UNCHANGED <<sh_class, sh_in, sh_ledger, notsh>>

\* strategy.backtest(): reads buy_signal and sell_signal from self.data;
\* variant 3 calls self.generate_signals() first
Backtest(k) ==
    /\ sh_pc[k] = "signalled"
    /\ LET c == sh_class[k]
           f == IF c = 3 THEN WithSignals(FrameOf(k), c) ELSE FrameOf(k)
       IN  /\ sh_ledger' = [sh_ledger EXCEPT ![k] = ShLedger(c, f.signals)]
           /\ IF c = 3 /\ sh_own[k].shared
              THEN sh_frame' = f /\ UNCHANGED sh_own
              ELSE IF c = 3
              THEN sh_own' = [sh_own EXCEPT ![k] = f] /\ UNCHANGED sh_frame
              ELSE UNCHANGED <<sh_frame, sh_own>>
    /\ sh_pc' = [sh_pc EXCEPT ![k] = "done"]
    /\ UNCHANGED <<sh_class, sh_in, notsh>>

ShNext ==
    \/ \E k \in {1, 2} : Construct(k)
    \/ \E k \in {1, 2} : GenerateSignals(k)
    \/ \E k \in {1, 2} : Backtest(k)

ShSpec == ShInit /\ [][ShNext]_vars

-----------------------------------------------------------------------------
(* The performance analyzers: Backtester.calculate_performance and         *)
(* main.calculate_performance_metrics, applied to a ledger.  A float       *)
(* result is kept as what the division yields: a fraction <<num, den>>, or *)
(* for the Sharpe ratio whether numpy divides by a zero, a NaN or a        *)
(* positive standard deviation.                                            *)

\* rows of the ledgers analysed
PfMaxRows == 3

PortfolioValueSet == {99, 100, 101}
SignalSet == {"buy", "sell", "hold"}

LedgerRowSet == [portfolio_value : PortfolioValueSet, signal : SignalSet]

\* the ledgers of 1..n rows
LedgersUpTo(n) == UNION {[1..k -> LedgerRowSet] : k \in 1..n}

\* rows whose pct_change() / daily_return is > 0; row 1 has NaN
PositiveReturnRows(results) ==
    {k \in 2..Len(results) :
        results[k].portfolio_value > results[k - 1].portfolio_value}

\* rows with signal 'buy' or 'sell'
TradeRows(results) ==
    {k \in 1..Len(results) : results[k].signal \in {"buy", "sell"}}

\* excess_returns.std(): NaN with fewer than two returns (ddof = 1), zero
\* when all returns are equal, positive otherwise
ExcessReturnsStd(results) ==
    LET n == Len(results)
        pv(k) == results[k].portfolio_value
    IN  IF n - 1 < 2 THEN "nan"
        ELSE IF \A j \in 2..n, k \in 2..n : pv(j) * pv(k - 1) = pv(k) * pv(j - 1)
        THEN "zero"
        ELSE "positive"

\* sharpe_ratio = np.sqrt(252) * excess_returns.mean() / excess_returns.std():
\* a float64 division, with no test of the denominator
SharpeRatio(results) ==
    LET std == ExcessReturnsStd(results)
    IN  [guarded |-> FALSE,
         std |-> std,
         value |-> CASE std = "positive" -> "finite"
                     [] std = "zero" -> "inf"
                     [] std = "nan" -> "nan"]

\* win_rate = (results['daily_return'] > 0).mean()
WinRateBacktester(results) ==
    <<Cardinality(PositiveReturnRows(results)), Len(results)>>

\* win_rate = winning_trades / total_trades if total_trades > 0 else 0
WinRateMain(results) ==
    LET winning_trades == Cardinality(PositiveReturnRows(results))
        total_trades == Cardinality(TradeRows(results))
    IN  IF total_trades > 0 THEN <<winning_trades, total_trades>> ELSE <<0, 1>>

PfInit ==
    /\ SimIdle
    /\ SgIdle
    /\ CzIdle
    /\ ShIdle
    /\ pf_results \in LedgersUpTo(PfMaxRows)
    /\ pf_pc = "ledger"
    /\ pf_metrics = <<>>

\* Backtester.calculate_performance(results)
CalculatePerformance ==
    /\ pf_pc = "ledger"
    /\ pf_metrics' = [win_rate |-> WinRateBacktester(pf_results),
                      total_trades |-> Cardinality(TradeRows(pf_results)),
                      sharpe_ratio |-> SharpeRatio(pf_results)]
    /\ pf_pc' = "calculate_performance"
    /\ UNCHANGED <<pf_results, notpf>>

\* main.calculate_performance_metrics(results)
CalculatePerformanceMetrics ==
    /\ pf_pc = "ledger"
    /\ pf_metrics' = [win_rate |-> WinRateMain(pf_results),
                      total_trades |-> Cardinality(TradeRows(pf_results)),
                      sharpe_ratio |-> SharpeRatio(pf_results)]
    /\ pf_pc' = "calculate_performance_metrics"
    /\ UNCHANGED <<pf_results, notpf>>

PfNext ==
    \/ CalculatePerformance
    \/ CalculatePerformanceMetrics

PfSpec == PfInit /\ [][PfNext]_vars

-----------------------------------------------------------------------------
(* Properties *)

Row == history_last
Emitted == history_len > 0
BarsIterated == i - StartIdx(variant)
Processed == BarsIterated > 0

\* C1: every emitted ledger row satisfies portfolio_value = cash + position *
\* close, with cash, position and close as recorded in that row (all variants).
C1_PortfolioValueIdentity ==
    Emitted => Row.portfolio_value = Row.cash + Row.position * Row.close * CU

\* a row emitted while a position is held, after a trade changed cash
C1_Witness ==
    Emitted /\ Row.position > 0 /\ Row.cash # initial_cash /\ history_len >= 2

\* C2: cash is >= 0 after every processed bar of every variant, also when a
\* stop-loss liquidation and an entry happen on the same bar.
C2_CashNeverNegative ==
    cash >= 0 /\ (Emitted => Row.cash >= 0)

\* a bar on which a stop-loss liquidation was followed by an entry
C2_Witness == ev.stopped /\ ev.bought /\ cash >= 0

\* C3: position is an integer >= 0 in every reachable state, including after
\* entries, liquidations and variant 3 partial sales.
C3_PositionNatural ==
    position \in Nat /\ (Emitted => Row.position \in Nat)

\* a variant 3 partial take-profit sale that left a position
C3_Witness == variant = 3 /\ ev.partial /\ position > 0 /\ position < ev.pos0

\* C4: the number of ledger rows equals the number of bars iterated, whichever
\* branch ran on the bar; a bar on which a stop tripped has a row too.
C4_OneRowPerBar ==
    /\ history_len = BarsIterated
    /\ (Processed => ev.row /\ Row.date = i - 1)

\* C5: in variants 2 and 3 a stop that trips liquidates the whole position,
\* resets highest price to 0 and ends the bar: no entry on the same bar, and
\* the position is 0 at the end of the bar.
C5_StopEndsBar ==
    (variant \in {2, 3} /\ ev.stopped) =>
        (position = 0 /\ highest_price = 0 /\ ~ev.bought)

\* stop_loss of the variant, percent
StopLossOf(v) == IF v = 2 THEN StopLossV2 ELSE StopLossV3

\* C6: in variants 2 and 3, on a bar that starts with a position whose close is
\* more than stop_loss below the position's entry cost, the whole position is
\* liquidated on that bar, for any price path since entry.
C6_FixedStopOnCost ==
    ( /\ variant \in {2, 3}
      /\ ev.pos0 > 0
      /\ (ev.price - ev.cost0) * 100 < (0 - StopLossOf(variant)) * ev.cost0 )
    => (ev.stopped \/ ev.sold)

\* C7: in variant 3, on a Long bar whose close is below (entry price -
\* atr_multiplier * ATR) the whole position is liquidated, also when neither
\* the fixed nor the trailing stop trips.
C7_AtrStopOnEntryPrice ==
    ( /\ variant = 3
      /\ ev.pos0 > 0
      /\ ev.atr > 0
      /\ 10 * ev.price < 10 * ev.cost0 - AtrMultiplier * ev.atr )
    => ev.stopped

\* C8: whenever the simulator is Flat the cost basis (avg_cost, variant 3) is
\* cleared; no Flat state carries the cost basis of a closed position.
C8_FlatClearsCostBasis ==
    (variant = 3 /\ position = 0) => avg_cost = 0

\* C9: in variants 2 and 3 the highest price is non-decreasing across
\* consecutive bars that end Long, is >= the entry price and the closes seen
\* since entry, and is 0 whenever position = 0.
C9_HighestPriceTracking ==
    variant \in {2, 3} =>
        /\ position = 0 => highest_price = 0
        /\ position > 0 => highest_price >= entry_price /\ highest_price >= ev.price
        /\ (ev.pos0 > 0 /\ position > 0) => highest_price >= ev.high0

\* C10: if buy_signal and sell_signal are false on every simulated bar, every
\* ledger row has cash = initial_cash, position = 0 and portfolio_value =
\* initial_cash, for every variant and any prices.
C10_AllHoldKeepsCash ==
    ~signals_seen =>
        /\ cash = initial_cash /\ position = 0
        /\ Emitted => /\ Row.cash = initial_cash
                      /\ Row.position = 0
                      /\ Row.portfolio_value = initial_cash

\* an all-Hold run of several bars
C10_Witness ==
    ~signals_seen /\ history_len >= 2 /\ history_len = BarsIterated /\ pc = "done"

\* ---------------------------------------------------------------------------
\* C11: in variant 3, on a bar that starts Long, trips no stop and shows an
\* unrealized gain of at least partial_sell_gain, the number of shares sold by
\* the partial take-profit is floor(position * min(0.8, partial_sell_ratio *
\* close / avg_cost)); it is strictly less than the position, at least one
\* share is left after the sale, and avg_cost is unchanged.
PartialSaleCase ==
    /\ variant = 3
    /\ ev.pos0 > 0
    /\ ~ev.stopped
    /\ (ev.price - ev.cost0) * 100 >= PartialSellGain * ev.cost0

\* k shares are no more than position * min(0.8, ratio * close / avg_cost)
WithinSellRatio(k) ==
    /\ k * 100 <= PartialSellCap * ev.pos0
    /\ k * 100 * ev.cost0 <= partial_sell_ratio * ev.pos0 * ev.price

C11_PartialSaleShares ==
    PartialSaleCase =>
        /\ ev.partial_shares \in 0..ev.pos0
        /\ WithinSellRatio(ev.partial_shares)
        /\ ~WithinSellRatio(ev.partial_shares + 1)
        /\ ev.partial_shares < ev.pos0
        /\ ev.pos0 - ev.partial_shares >= 1
        /\ position = (IF ev.sold THEN 0 ELSE ev.pos0 - ev.partial_shares)
        /\ avg_cost = ev.cost0

\* a partial sale of at least two shares where the 0.8 cap is the binding term
C11_Witness ==
    /\ PartialSaleCase
    /\ ev.partial
    /\ ev.partial_shares >= 2
    /\ PartialSellCap * ev.cost0 < partial_sell_ratio * ev.price
    /\ position >= 1

\* a partial sale where partial_sell_ratio * (1 + gain) is the binding term
C11_WitnessUncapped ==
    /\ PartialSaleCase
    /\ ev.partial
    /\ PartialSellCap * ev.cost0 > partial_sell_ratio * ev.price

\* ---------------------------------------------------------------------------
\* C12: in variants 2 and 3 a buy executes only on a bar whose buy signal is
\* true, sets position to the n shares bought and lowers cash by exactly
\* n*p + n*p*(commission + slippage); every sale of n shares at close p (stop,
\* partial take-profit, sell signal) raises cash by exactly n*p - n*p*
\* (commission + slippage); so over one bar cash + position * close changes
\* only by minus the transaction costs of that bar's trades.
CostRateOf(v) ==
    IF v = 2 THEN CommissionV2 + SlippageV2 ELSE CommissionV3 + SlippageV3

\* n * p in cash units, and n * p * (commission + slippage) in cash units
Notional(n, p) == n * p * CU
CostOfTrade(n, p) == (n * p * CostRateOf(variant) * CU) \div BP

\* shares sold and bought by the bar just simulated
SoldShares ==
    IF ev.stopped THEN ev.pos0
    ELSE ev.partial_shares + (IF ev.sold THEN ev.pos0 - ev.partial_shares ELSE 0)
BoughtShares == IF ev.bought THEN position ELSE 0

C12_TradesMoveCashExactly ==
    (variant \in {2, 3} /\ Processed) =>
        /\ (SoldShares * ev.price * CostRateOf(variant) * CU) % BP = 0
        /\ cash - ev.cash0 =
              (Notional(SoldShares, ev.price) - CostOfTrade(SoldShares, ev.price))
              - (Notional(BoughtShares, ev.price)
                 + CostOfTrade(BoughtShares, ev.price))
        /\ position = ev.pos0 - SoldShares + BoughtShares
        /\ ev.bought => (ev.buy /\ position = BoughtShares /\ position > 0)
        /\ (cash + Notional(position, ev.price))
           - (ev.cash0 + Notional(ev.pos0, ev.price))
           = - (CostOfTrade(SoldShares, ev.price)
                + CostOfTrade(BoughtShares, ev.price))

\* a variant 2 bar whose stop sold the position and whose buy signal bought
\* a new one at the same close: two trades, both costed
C12_Witness ==
    /\ variant = 2
    /\ ev.stopped
    /\ ev.bought
    /\ SoldShares >= 2
    /\ BoughtShares >= 2
    /\ cash # ev.cash0

\* a variant 3 bar with a partial take-profit followed by a signal sale
C12_WitnessPartialThenSell ==
    /\ variant = 3
    /\ ev.partial
    /\ ev.sold
    /\ position = 0
    /\ cash > ev.cash0

\* ---------------------------------------------------------------------------
\* C14: in variants 2 and 3, a bar that starts Flat with a true buy signal, on
\* which the computed share count is 0 or shares * close + transaction costs
\* exceeds cash, leaves cash, position, highest price and cost basis as they
\* were, and its ledger row still records signal = 'buy'.
SharesWanted ==
    IF variant = 2
    THEN SharesToBuyV2(ev.cash0, ev.price, ev.vol)
    ELSE PositionSizeV3(ev.cash0, ev.price, ev.vol, max_position,
                        rsi_last, trend_last)

TotalCostWanted ==
    Notional(SharesWanted, ev.price) + CostOfTrade(SharesWanted, ev.price)

UnfillableBuy ==
    /\ variant \in {2, 3}
    /\ Processed
    /\ ev.buy
    /\ ev.pos0 = 0
    /\ (SharesWanted = 0 \/ TotalCostWanted > ev.cash0)

C14_UnfillableBuyKeepsState ==
    UnfillableBuy =>
        /\ cash = ev.cash0
        /\ position = 0
        /\ highest_price = ev.high0
        /\ (variant = 3 => avg_cost = ev.cost0)
        /\ entry_price = ev.cost0
        /\ ~ev.bought
        /\ ev.row
        /\ Row.date = i - 1
        /\ Row.signal = "buy"

\* a variant 3 buy of at least one share that costs more than the cash held
C14_Witness ==
    /\ UnfillableBuy
    /\ variant = 3
    /\ SharesWanted >= 1
    /\ TotalCostWanted > ev.cash0
    /\ Row.signal = "buy"

\* a variant 2 buy whose share count truncates to zero
C14_WitnessZeroShares ==
    /\ UnfillableBuy
    /\ variant = 2
    /\ SharesWanted = 0
    /\ Row.signal = "buy"

\* ---------------------------------------------------------------------------
\* some row has been computed by generate_signals of variant v
SgDone(v) == sg_variant = v /\ sg_row # <<>>

\* C13: in generate_signals of variant 3, on every row the buy score is the
\* sum of six sub-conditions that are each 0 or 1, so an integer in 0..6, and
\* buy_signal is true exactly when the score is at least 4.
C13_BuyScoreThreshold ==
    SgDone(3) =>
        LET c == sg_row.out.buy_conditions
            score == sg_row.out.buy_score
        IN  /\ Len(c) = 6
            /\ \A k \in 1..6 : c[k] \in {0, 1}
            /\ score = c[1] + c[2] + c[3] + c[4] + c[5] + c[6]
            /\ score \in 0..6
            /\ sg_row.out.buy_signal <=> score >= 4

\* a row whose score is exactly 4: Buy
C13_Witness ==
    /\ SgDone(3)
    /\ sg_row.out.buy_score = 4
    /\ sg_row.out.buy_signal

\* a row whose score is exactly 3: no Buy
C13_WitnessBelow ==
    /\ SgDone(3)
    /\ sg_row.out.buy_score = 3
    /\ ~sg_row.out.buy_signal

\* ---------------------------------------------------------------------------
\* an indicator that the rules of the variant read is NaN on the row computed
\* last, or the cross state of the row before it comes from an undefined
\* ma_2 or ma_7 (or there is no row before it)
WarmingUp ==
    LET d == sg_row.ind
    IN  \/ d.ma_2.nan \/ d.ma_7.nan \/ d.ma_20.nan
        \/ d.volatility.nan \/ d.momentum.nan
        \/ sg_row.idx = 0
        \/ (sg_row.idx > 0 /\ ~sg_row.prev.defined)
        \/ (sg_variant = 3 /\ (d.ma_50.nan \/ d.momentum_20.nan \/ d.rsi.nan))

\* C15: in generate_signals of variants 2 and 3, a row on which an indicator
\* read by the variant's rules is still undefined (warm-up) has buy_signal
\* and sell_signal both false.
C15_WarmupForcesHold ==
    (sg_row # <<>> /\ WarmingUp) =>
        (~sg_row.out.buy_signal /\ ~sg_row.out.sell_signal)

\* ---------------------------------------------------------------------------
\* the columns variant 1 reads for bar b of n rows are defined: ma_2, ma_7,
\* avg.shift(-1), avg.shift(-2), ma_7.shift(-1) of the signal rule, and close
\* and the next open of the simulator
ReadsDefinedV1(b, n) ==
    /\ ~Rolling(b, 0, 2, 0).nan
    /\ ~Rolling(b, 0, 7, 0).nan
    /\ ~Shifted(b, 1, n, 0, 0).nan
    /\ ~Shifted(b, 2, n, 0, 0).nan
    /\ ~Shifted(b, 1, n, 7 - 1, 0).nan
    /\ IlocValid(b, n)
    /\ b + 1 \in 0..(n - 1)

\* the columns variant 2 reads for bar b: ma_2, ma_7, ma_20, volatility,
\* momentum, the cross state of the row before, close of b and of b - 1
ReadsDefinedV2(b, n) ==
    /\ \A f \in {"ma_2", "ma_7", "ma_20", "volatility", "momentum"} :
           ~Indicators(b, [ma_2 |-> 0, ma_7 |-> 0, ma_20 |-> 0, ma_50 |-> 0,
                           volatility |-> 0, momentum |-> 0, momentum_20 |-> 0,
                           rsi |-> 0])[f].nan
    /\ ~Shifted(b, -1, n, 2 - 1, 0).nan
    /\ ~Shifted(b, -1, n, 7 - 1, 0).nan
    /\ IlocValid(b, n)
    /\ b - 1 \in 0..(n - 1)

\* the columns variant 3 reads for bar b: those of variant 2 and ma_50,
\* momentum_20, rsi and ATR
ReadsDefinedV3(b, n) ==
    /\ ReadsDefinedV2(b, n)
    /\ \A f \in {"ma_50", "momentum_20", "rsi"} :
           ~Indicators(b, [ma_2 |-> 0, ma_7 |-> 0, ma_20 |-> 0, ma_50 |-> 0,
                           volatility |-> 0, momentum |-> 0, momentum_20 |-> 0,
                           rsi |-> 0])[f].nan
    /\ ~CalculateAtr(b, AtrPeriod, 0).nan

\* C16: variant 1 simulates bars 7 .. len-3, variant 2 bars 20 .. len-1,
\* variant 3 bars max(50, atr_period) .. len-1; on every simulated bar every
\* column read by the signal rule and the simulator is defined; a series
\* shorter than the start index returns an empty ledger.
C16_SimulatedRangeIsWarm ==
    /\ Processed =>
          LET b == i - 1
          IN  /\ variant = 1 => (7 <= b /\ b <= len_data - 3
                                 /\ ReadsDefinedV1(b, len_data))
              /\ variant = 2 => (20 <= b /\ b <= len_data - 1
                                 /\ ReadsDefinedV2(b, len_data))
              /\ variant = 3 => (50 <= b /\ AtrPeriod <= b /\ b <= len_data - 1
                                 /\ ReadsDefinedV3(b, len_data))
    /\ (Processed /\ BarsIterated = 1) =>
          i - 1 = (CASE variant = 1 -> 7 [] variant = 2 -> 20
                     [] variant = 3 -> Max(50, AtrPeriod))
    /\ pc = "done" =>
          /\ len_data < StartIdx(variant) => (history_len = 0 /\ ~Processed)
          /\ len_data >= StartIdx(variant) =>
                i = (IF variant = 1 THEN Max(7, len_data - 2) ELSE len_data)

\* variant 1 has simulated its last bar, len - 3, whose signal reads row len - 1
C16_Witness ==
    /\ variant = 1
    /\ Processed
    /\ i - 1 = len_data - 3
    /\ i - 1 > 7
    /\ ReadsDefinedV1(i - 1, len_data)

\* a series shorter than the start index has returned an empty ledger
C16_WitnessShort ==
    /\ pc = "done"
    /\ len_data < StartIdx(variant)
    /\ history_len = 0

\* ---------------------------------------------------------------------------
\* C17: variants 2 and 3 are causal: two runs on series that agree on every
\* row up to and including bar i produce the same entry sizes and the same
\* ledger rows for the bars up to i; nothing decided at bar i depends on a
\* later row.
C17_Causal ==
    (cz_variant \in {2, 3} /\ cz_i > StartIdx(cz_variant)) =>
        /\ cz_row[1] = cz_row[2]
        /\ cz_sim[1].position = cz_sim[2].position
        /\ cz_sim[1].cash = cz_sim[2].cash

\* ---------------------------------------------------------------------------
\* the caller's DataFrame still is what the caller fetched
CallerFrameUntouched == sh_frame = FreshFrame

\* C18: two strategy objects built from the same input share no mutable
\* state: for every interleaving of their steps, each backtest returns the
\* ledger it returns when the object runs alone (the ledger computed from the
\* signals of its own rule).
C18_InterleavingKeepsLedger ==
    sh_pc # <<>> =>
        \A k \in {1, 2} :
            sh_pc[k] = "done" =>
                sh_ledger[k] = ShLedger(sh_class[k], sh_in.signals[sh_class[k]])

\* ---------------------------------------------------------------------------
\* an analyzer has computed its metrics
Analysed == pf_pc \in {"calculate_performance", "calculate_performance_metrics"}

\* C19: the win rate reported by both analyzers is the number of ledger rows
\* with a positive bar-over-bar portfolio return divided by the number of
\* rows, so it lies in [0, 1].
C19_WinRateIsFraction ==
    Analysed =>
        LET w == pf_metrics.win_rate
        IN  /\ w[2] > 0
            /\ 0 <= w[1] /\ w[1] <= w[2]
            /\ w[1] * Len(pf_results)
                   = Cardinality(PositiveReturnRows(pf_results)) * w[2]

\* ---------------------------------------------------------------------------
\* C20: when the standard deviation of the excess daily returns is 0 (e.g. a
\* ledger with constant portfolio value), the Sharpe ratio is a defined,
\* deterministic value reached through an explicit guard or clamp, not
\* through a division by zero.
C20_SharpeGuarded ==
    (Analysed /\ ExcessReturnsStd(pf_results) = "zero") =>
        /\ pf_metrics.sharpe_ratio.guarded
        /\ pf_metrics.sharpe_ratio.value = "finite"

\* ---------------------------------------------------------------------------
\* C21: in variant 1, a buy signal on a Flat bar buys floor(0.97 * account
\* value / next open) shares and lowers cash by exactly shares * next open;
\* a sell signal on a Long bar sells the whole position and raises cash by
\* position * next open; with both signals true the buy is taken when Flat
\* and the sell when Long; no bar executes both, and no transaction cost is
\* charged.
C21_NextOpenTrades ==
    (variant = 1 /\ Processed) =>
        LET value0 == ev.cash0 + Notional(ev.pos0, ev.price)
        IN  /\ (ev.buy /\ ev.pos0 = 0) =>
                  /\ position >= 0
                  /\ position * 100 * ev.open * CU <= FractionV1 * value0
                  /\ (position + 1) * 100 * ev.open * CU > FractionV1 * value0
                  /\ cash = ev.cash0 - Notional(position, ev.open)
                  /\ ~ev.sold
            /\ (ev.sell /\ ev.pos0 > 0) =>
                  /\ position = 0
                  /\ cash = ev.cash0 + Notional(ev.pos0, ev.open)
                  /\ ev.sold /\ ~ev.bought
            /\ (~(ev.buy /\ ev.pos0 = 0) /\ ~(ev.sell /\ ev.pos0 > 0)) =>
                  (cash = ev.cash0 /\ position = ev.pos0)
            /\ ~(ev.bought /\ ev.sold)

\* a Long bar with both signals true: the position is sold at the next open
C21_Witness ==
    /\ variant = 1
    /\ Processed
    /\ ev.buy /\ ev.sell
    /\ ev.pos0 >= 2
    /\ position = 0
    /\ ev.open # ev.price

\* a Flat bar with both signals true: shares are bought at the next open
C21_WitnessBuy ==
    /\ variant = 1
    /\ Processed
    /\ ev.buy /\ ev.sell
    /\ ev.pos0 = 0
    /\ position >= 2
    /\ ev.open # ev.price

\* ---------------------------------------------------------------------------
\* C22: in variants 2 and 3, a bar whose sell signal is true and on which a
\* position is still held after the stop-loss block and the partial
\* take-profit sells everything that is left at the close, net of costs, and
\* ends Flat with highest_price = 0; a buy signal on the same bar changes
\* nothing (the entry condition needs position = 0), nor does a partial sale
\* made just before on the same bar.
HeldAfterRules ==
    /\ ev.pos0 > 0
    /\ ~ev.stopped
    /\ ev.pos0 - ev.partial_shares > 0

C22_SellSignalLiquidates ==
    (variant \in {2, 3} /\ Processed /\ ev.sell /\ HeldAfterRules) =>
        LET rest == ev.pos0 - ev.partial_shares
            cash_after_partial ==
                ev.cash0 + Notional(ev.partial_shares, ev.price)
                         - CostOfTrade(ev.partial_shares, ev.price)
        IN  /\ ev.sold
            /\ ~ev.bought
            /\ position = 0
            /\ highest_price = 0
            /\ cash = cash_after_partial + Notional(rest, ev.price)
                                         - CostOfTrade(rest, ev.price)

\* variant 3, buy and sell signal both true, a partial sale first, then the
\* rest of the position sold by the signal
C22_Witness ==
    /\ variant = 3
    /\ Processed
    /\ ev.buy
    /\ ev.sell
    /\ ev.partial
    /\ ev.partial_shares >= 1
    /\ ev.pos0 - ev.partial_shares >= 2
    /\ ev.sold
    /\ position = 0

\* variant 2, sell signal on a held position the stops did not touch
C22_WitnessV2 ==
    /\ variant = 2
    /\ Processed
    /\ ev.sell
    /\ HeldAfterRules
    /\ ev.pos0 >= 2
    /\ position = 0

\* ---------------------------------------------------------------------------
\* C23: in variants 2 and 3 the shares bought at an entry are worth at most
\* max_position times the account value available at that entry (the cash
\* just before the purchase, no shares being held then).
MaxPositionOf(v) == IF v = 2 THEN MaxPositionV2 ELSE max_position

\* cash just before the purchase of the bar just simulated
EntryValue ==
    cash + Notional(BoughtShares, ev.price) + CostOfTrade(BoughtShares, ev.price)

C23_EntryWithinMaxPosition ==
    (variant \in {2, 3} /\ Processed /\ ev.bought) =>
        100 * Notional(position, ev.price) <= MaxPositionOf(variant) * EntryValue

\* ---------------------------------------------------------------------------
\* C24: in every variant the signal label of a ledger row agrees with the
\* signal-driven action of its bar: the row of a bar on which the sell
\* signal liquidated the position is labelled 'sell', and a row labelled
\* 'hold' belongs to a bar with no signal-driven purchase or sale.
C24_LabelAgreesWithAction ==
    (Processed /\ ev.row) =>
        /\ ev.sold => Row.signal = "sell"
        /\ Row.signal = "hold" => (~ev.bought /\ ~ev.sold)

\* ---------------------------------------------------------------------------
\* C25: in every variant a purchase happens only when the entry check finds
\* position = 0, so from one bar to the next a position that is held at
\* both ends never grows, and in variant 3 avg_cost changes only at an entry.
C25_NoPyramiding ==
    Processed =>
        /\ ev.bought => (ev.buy /\ (ev.pos0 = 0 \/ ev.stopped))
        /\ (ev.pos0 > 0 /\ position > 0) => position <= ev.pos0
        /\ (variant = 3 /\ avg_cost # ev.cost0) => ev.bought

=============================================================================
